---- MODULE Spec2Model ----
(***************************************************************************)
(* Model of the incident-investigation entry point (app/handler.py) and    *)
(* of the deployment sub-agent's tools (app/agents/deploy_agent.py).       *)
(*                                                                         *)
(* One run: lambda_handler normalises the alarm payload and runs           *)
(* _run_commander, which opens a session, consumes the runner's event      *)
(* stream (tracing every event), reads the session state back, assembles   *)
(* the Run Result and hands it to _send_findings_email.                    *)
(*                                                                         *)
(* Python strings are TLA+ strings; a Python dict is a function whose      *)
(* domain is its key set; an optional value is a sequence of length 0 or 1.*)
(***************************************************************************)
EXTENDS Integers, Sequences, FiniteSets, TLC

VARIABLES
    pc,             \* position of lambda_handler / _run_commander
    event,          \* lambda_handler's `event` (rebound by the normalisation)
    prompt,         \* <<>> or <<the prompt handed to runner.run_async>>
    session_id,     \* session.id, "" before create_session returned
    events,         \* the events the stream has yielded so far, in order
    step_count,     \* _run_commander.step_count
    current_agent,  \* _run_commander.current_agent
    final_text,     \* _run_commander.final_text
    trace,          \* the lines _trace has logged, in order
    elapsed,        \* round(elapsed, 1), in tenths of a second
    state,          \* the session's shared state mapping
    result,         \* <<>> or <<the Run Result dict>>
    exc,            \* <<>> or <<the exception the agent runtime raised into the run>>
    mail,           \* "none" | "sent" | "failed": outcome of _send_findings_email
    response,       \* <<>> or <<the mapping lambda_handler returned>>
    tool_result,    \* <<>> or <<outcome of the most recent sub-agent tool call>>
    truncated,      \* <<>> or <<a call of _truncate: its arguments and its value>>
    runs,           \* concurrent runs of _run_commander: each run's local variables
    store           \* concurrent runs: the session state of each session id

\* The variables the single-run specifications leave alone.
auxVars == <<truncated, runs, store>>

vars == <<pc, event, prompt, session_id, events, step_count, current_agent,
          final_text, trace, elapsed, state, result, exc, mail, response,
          tool_result, truncated, runs, store>>

(***************************************************************************)
(* Bounds of the model.                                                    *)
(***************************************************************************)
MaxEvents == 3

(***************************************************************************)
(* Program constants.                                                      *)
(***************************************************************************)
TruncateDefault == 200

ToolResultMaxLen == 300

TextMaxLen == 500

ReasoningMaxLen == 300

FindingsMaxLen == 500

StateTraceMaxLen == 200

AlarmDetailType == "CloudWatch Alarm State Change"

FindingKeys == <<"logs_findings", "metrics_findings", "deploy_findings">>

DeployOutputKey == "deploy_findings"

\* Python's None where it is compared with strings (current_agent, transfer_to).
None == "<None>"

(***************************************************************************)
(* Generic helpers: sequences, dicts, strings.                             *)
(***************************************************************************)
Range(s) == {s[i] : i \in DOMAIN s}

EmptyDict == [k \in {} |-> ""]

DictPut(d, key, val) ==
    [k \in DOMAIN d \cup {key} |-> IF k = key THEN val ELSE d[k]]

RECURSIVE Rep(_, _)
\* The string made of n copies of the character c.
Rep(c, n) ==
    IF n = 0 THEN ""
    ELSE LET h == Rep(c, n \div 2)
         IN  h \o h \o (IF n % 2 = 1 THEN c ELSE "")

RECURSIVE Join(_, _)
\* sep.join(strs)
Join(sep, strs) ==
    IF Len(strs) = 0 THEN ""
    ELSE IF Len(strs) = 1 THEN strs[1]
    ELSE strs[1] \o sep \o Join(sep, Tail(strs))

\* text[:n]
Prefix(text, n) == IF Len(text) <= n THEN text ELSE SubSeq(text, 1, n)

StartsWith(text, pre) == Len(text) >= Len(pre) /\ Prefix(text, Len(pre)) = pre

Digits == <<"0", "1", "2", "3", "4", "5", "6", "7", "8", "9">>

RECURSIVE IntStr(_)
\* str(n) for a natural number n
IntStr(n) ==
    IF n < 10 THEN Digits[n + 1]
    ELSE IntStr(n \div 10) \o Digits[(n % 10) + 1]

\* f"{x:.1f}" for x given in tenths
TenthsStr(t) == IntStr(t \div 10) \o "." \o Digits[(t % 10) + 1]

(***************************************************************************)
(* Python values held in the session state: None, a str or an int.         *)
(***************************************************************************)
PyNone == [t |-> "none"]

PyStr(s) == [t |-> "str", s |-> s]

PyInt(n) == [t |-> "int", n |-> n]

\* str(val)
Str(val) ==
    CASE val.t = "none" -> "None"
      [] val.t = "str"  -> val.s
      [] val.t = "int"  -> IntStr(val.n)

\* bool(val)
Truthy(val) ==
    CASE val.t = "none" -> FALSE
      [] val.t = "str"  -> val.s # ""
      [] val.t = "int"  -> val.n # 0

\* json.dumps of a str (the model's strings hold no character to escape)
JsonStr(s) == "\"" \o s \o "\""

RECURSIVE JsonItems(_, _)
JsonItems(d, keys) ==
    IF keys = {} THEN <<>>
    ELSE LET k == CHOOSE x \in keys : TRUE
         IN  <<JsonStr(k) \o ": " \o JsonStr(d[k])>> \o JsonItems(d, keys \ {k})

\* json.dumps of a dict of str to str
JsonDumps(d) == "{" \o Join(", ", JsonItems(d, DOMAIN d)) \o "}"

(***************************************************************************)
(* handler.py: _trace and _truncate.                                       *)
(***************************************************************************)
\* The line _trace(tag, msg, color) logs; the colour codes carry no information.
Line(tag, msg) == [tag |-> tag, msg |-> msg]

\* The suffix _truncate appends to a text it cut.
Marker == "..."

\* _truncate cutting to max_len characters, marker included
Truncate_markerCounted(text, max_len) ==
    IF Len(text) <= max_len THEN text
    ELSE IF max_len <= Len(Marker) THEN SubSeq(Marker, 1, max_len)
    ELSE SubSeq(text, 1, max_len - Len(Marker)) \o Marker

Truncate(text, max_len) ==
    IF Len(text) <= max_len THEN text
    ELSE SubSeq(text, 1, max_len) \o "..."

(***************************************************************************)
(* Investigation events (google.adk Event, as _run_commander reads it).    *)
(*   author        : ev.author                                             *)
(*   transfer_to   : ev.actions.transfer_to_agent, None when unset         *)
(*   escalate      : ev.actions.escalate                                   *)
(*   calls         : ev.get_function_calls(), each [name, args]            *)
(*   resps         : ev.get_function_responses(), each [name, response]    *)
(*   parts         : the .text of ev.content.parts ("" for a part with no  *)
(*                   text; <<>> when content is None or has no parts)      *)
(*   final         : ev.is_final_response()                                *)
(***************************************************************************)
Ev(author, transfer_to, escalate, calls, resps, parts, final) ==
    [author |-> author, transfer_to |-> transfer_to, escalate |-> escalate,
     calls |-> calls, resps |-> resps, parts |-> parts, final |-> final]

Call(name, args) == [name |-> name, args |-> args]

Resp(name, resp) == [name |-> name, response |-> resp]

LongText == Rep("x", TextMaxLen + 1)

AnalyzeCall == Call("analyze_deployments", [service |-> "api", anomaly_start |-> LongText])

SubmitCall == Call("submit_deploy_response", [incident_id |-> "INC-1"])

AnalyzeResp == Resp("analyze_deployments", [deployments_found |-> "3"])

EmptyResp == Resp("submit_deploy_response", EmptyDict)

\* The events of the trace specification: every kind of content the loop
\* distinguishes, alone and combined.
TraceEvents ==
    { Ev("Commander", None, FALSE, <<>>, <<>>, <<"plan">>, FALSE),
      Ev("Commander", "deploy_agent", FALSE, <<>>, <<>>, <<>>, FALSE),
      Ev("deploy_agent", None, FALSE, <<AnalyzeCall>>, <<>>, <<>>, FALSE),
      Ev("deploy_agent", None, FALSE, <<>>, <<AnalyzeResp>>, <<>>, FALSE),
      Ev("deploy_agent", None, FALSE, <<>>, <<>>, <<"risky", "", "X">>, TRUE),
      Ev("Commander", None, FALSE, <<>>, <<>>, <<"done">>, TRUE),
      Ev("deploy_agent", None, TRUE, <<>>, <<>>, <<>>, FALSE),
      Ev("Commander", "deploy_agent", TRUE, <<AnalyzeCall, SubmitCall>>,
         <<AnalyzeResp, EmptyResp>>, <<"all">>, TRUE),
      Ev("Commander", None, FALSE, <<SubmitCall>>, <<>>, <<"calling">>, FALSE),
      Ev("deploy_agent", None, FALSE, <<>>, <<>>, <<>>, TRUE),
      Ev("logs_agent", None, FALSE, <<>>, <<>>, <<LongText>>, FALSE) }

\* The stream transfer, tool call, tool result, final response.
ScenarioStream ==
    << Ev("Commander", "deploy_agent", FALSE, <<>>, <<>>, <<>>, FALSE),
       Ev("deploy_agent", None, FALSE, <<AnalyzeCall>>, <<>>, <<>>, FALSE),
       Ev("deploy_agent", None, FALSE, <<>>, <<AnalyzeResp>>, <<>>, FALSE),
       Ev("deploy_agent", None, FALSE, <<>>, <<>>, <<"Found risky deploy X">>, TRUE) >>

\* The events of the full-run specification.
CoreEvents ==
    { Ev("Commander", "deploy_agent", FALSE, <<>>, <<>>, <<"plan">>, FALSE),
      Ev("deploy_agent", None, FALSE, <<SubmitCall>>, <<>>, <<>>, FALSE),
      Ev("Commander", None, FALSE, <<>>, <<>>, <<"done">>, TRUE) }

(***************************************************************************)
(* _run_commander: the body of the event loop, one operator per section.   *)
(***************************************************************************)
\* step_count += 1, with the event counted twice
NextStepCount_twice(n) == n + 2

\* step_count += 1
NextStepCount(n) == n + 1

\* "Agent transition", with the first event of a run not taken for one
IsTransition_notFirst(cur, author) == cur # None /\ author # cur

\* "Agent transition": is this event a transition?
IsTransition(cur, author) == author # cur

\* "Agent transition": the lines logged for an event by `author`
TransitionLines(cur, author) ==
    IF IsTransition(cur, author)
    THEN (IF cur # None THEN <<Line("AGENT", "<<< Exiting: " \o cur)>> ELSE <<>>)
         \o <<Line("AGENT", ">>> Entering: " \o author)>>
    ELSE <<>>

\* current_agent left as it was: `current_agent = author` missing
NextCurrentAgent_stale(cur, author) == cur

\* current_agent after the event
NextCurrentAgent(cur, author) == IF IsTransition(cur, author) THEN author ELSE cur

\* {k: _truncate(str(v)) for k, v in fc.args.items()}
TruncatedArgs(args) == [k \in DOMAIN args |-> Truncate(args[k], TruncateDefault)]

\* "Tool calls", with only the first call of an event logged
ToolCallLines_firstOnly(ev) ==
    [i \in DOMAIN ev.calls \cap {1} |->
        Line("TOOL_CALL",
             ev.calls[i].name \o "(" \o JsonDumps(TruncatedArgs(ev.calls[i].args)) \o ")")]

\* "Tool calls": one line per function call
ToolCallLines(ev) ==
    [i \in DOMAIN ev.calls |->
        Line("TOOL_CALL",
             ev.calls[i].name \o "(" \o JsonDumps(TruncatedArgs(ev.calls[i].args)) \o ")")]

\* json.dumps(fr.response) if fr.response else ""
RespStr(fr) == IF DOMAIN fr.response # {} THEN JsonDumps(fr.response) ELSE ""

\* "Tool responses": one line per function response
ToolResultLines(ev) ==
    [i \in DOMAIN ev.resps |->
        Line("TOOL_RESULT",
             ev.resps[i].name \o " -> " \o Truncate(RespStr(ev.resps[i]), ToolResultMaxLen))]

\* "Agent transfer"
TransferLines(ev) ==
    IF ev.transfer_to # None
    THEN <<Line("A2A_TRANSFER", ev.author \o " -> " \o ev.transfer_to)>>
    ELSE <<>>

\* "Escalation", skipped for an event that also transfers
EscalateLines_unlessTransfer(ev) ==
    IF ev.escalate /\ ev.transfer_to = None
    THEN <<Line("ESCALATE", ev.author \o " escalating to parent")>>
    ELSE <<>>

\* "Escalation"
EscalateLines(ev) ==
    IF ev.escalate THEN <<Line("ESCALATE", ev.author \o " escalating to parent")>>
    ELSE <<>>

RECURSIVE NonEmpty(_)
\* [p.text for p in ev.content.parts if p.text]
NonEmpty(parts) ==
    IF Len(parts) = 0 THEN <<>>
    ELSE (IF parts[1] # "" THEN <<parts[1]>> ELSE <<>>) \o NonEmpty(Tail(parts))

TextParts(ev) == NonEmpty(ev.parts)

\* combined = " ".join(text_parts)
Combined(ev) == Join(" ", TextParts(ev))

\* The FINAL_RESPONSE branch taken for every final event, text or not
IsFinalText_anyFinal(ev) == ev.final

\* Does the event reach the FINAL_RESPONSE branch?
IsFinalText(ev) == TextParts(ev) # <<>> /\ ev.final

\* Does the event reach the REASONING branch?
IsReasoning(ev) ==
    TextParts(ev) # <<>> /\ ~ev.final /\ ev.calls = <<>> /\ ev.resps = <<>>

\* "Text output": the FINAL_RESPONSE or REASONING line
TextLines(ev) ==
    IF IsFinalText(ev)
    THEN <<Line("FINAL_RESPONSE",
                "[" \o ev.author \o "] " \o Truncate(Combined(ev), TextMaxLen))>>
    ELSE IF IsReasoning(ev)
    THEN <<Line("REASONING",
                "[" \o ev.author \o "] " \o Truncate(Combined(ev), ReasoningMaxLen))>>
    ELSE <<>>

\* final_text += combined
AppendFinal(text, combined) == text \o combined

\* final_text after the event
NextFinalText(text, ev) ==
    IF IsFinalText(ev) THEN AppendFinal(text, Combined(ev)) ELSE text

\* The lines of one event with the text section moved to the top of the body
EventLines_textFirst(cur, ev) ==
    TextLines(ev) \o TransitionLines(cur, ev.author) \o ToolCallLines(ev)
    \o ToolResultLines(ev) \o TransferLines(ev) \o EscalateLines(ev)

\* All lines one event logs, in the order the loop body logs them.
EventLines(cur, ev) ==
    TransitionLines(cur, ev.author) \o ToolCallLines(ev) \o ToolResultLines(ev)
    \o TransferLines(ev) \o EscalateLines(ev) \o TextLines(ev)

(***************************************************************************)
(* _run_commander: reading the findings back and assembling the result.    *)
(***************************************************************************)
\* sess.state.get(key)
StateGet(st, key) == IF key \in DOMAIN st THEN st[key] ELSE PyNone

\* `if val:` left out: every key is stored
FindingIncluded_always(val) == TRUE

\* `if val:`
FindingIncluded(val) == Truthy(val)

\* findings after the loop over the well-known keys
Findings(st) ==
    [k \in {key \in Range(FindingKeys) : FindingIncluded(StateGet(st, key))} |->
        Truncate(Str(StateGet(st, k)), FindingsMaxLen)]

\* the STATE lines, one per well-known key, in the order of the list
StateLines(st) ==
    [i \in DOMAIN FindingKeys |->
        LET key == FindingKeys[i]
            val == StateGet(st, key)
        IN  IF FindingIncluded(val)
            THEN Line("STATE", key \o " = " \o Truncate(Str(val), StateTraceMaxLen))
            ELSE Line("STATE", key \o " = (not set)")]

\* result = {...}
RunResult(text, sid, el, n, fnd) ==
    [response |-> text, session_id |-> sid, elapsed_seconds |-> el,
     event_count |-> n, sub_agent_findings |-> fnd]

ResultFields ==
    {"response", "session_id", "elapsed_seconds", "event_count", "sub_agent_findings"}

\* round(elapsed, 1), in tenths, of a duration given in milliseconds
RoundTenths(ms) == (ms + 50) \div 100

(***************************************************************************)
(* Inputs from the environment.                                            *)
(***************************************************************************)
BareAlarm == [alarmName |-> "HighCPU"]

Wrapped(detail) == ("detail" :> detail) @@ ("detail-type" :> AlarmDetailType)

OtherAlarm == [alarmName |-> "LowDisk"]

\* Alarm payloads: bare, already wrapped, and with one of the two keys only.
Payloads ==
    { BareAlarm,
      Wrapped(OtherAlarm),
      ("detail" :> BareAlarm),
      ("detail-type" :> "Scheduled Event") }

SessionIds == {"sess-1", "sess-2"}

ElapsedMs == {40, 1260}

(***************************************************************************)
(* lambda_handler and _run_commander as a state machine.                   *)
(***************************************************************************)
MainInit(payloads) ==
    /\ pc = "lambda_handler"
    /\ event \in payloads
    /\ prompt = <<>>
    /\ session_id = ""
    /\ events = <<>>
    /\ step_count = 0
    /\ current_agent = None
    /\ final_text = ""
    /\ trace = <<>>
    /\ elapsed = 0
    /\ state = EmptyDict
    /\ result = <<>>
    /\ exc = <<>>
    /\ mail = "none"
    /\ response = <<>>
    /\ tool_result = <<>>

\* No call of _truncate on its own and no concurrent runs.
AuxIdle ==
    /\ truncated = <<>>
    /\ runs = <<>>
    /\ store = <<>>

InitWith(payloads) == MainInit(payloads) /\ AuxIdle

\* "Normalize: wrap raw alarm detail if needed", applied whatever the payload
Normalize_always(ev) == ("detail" :> ev) @@ ("detail-type" :> AlarmDetailType)

\* "Normalize: wrap raw alarm detail if needed"
Normalize(ev) ==
    IF "detail-type" \notin DOMAIN ev /\ "detail" \notin DOMAIN ev
    THEN Wrapped(ev)
    ELSE ev

\* lambda_handler up to the call of _run_commander
LambdaNormalize ==
    /\ pc = "lambda_handler"
    /\ event' = Normalize(event)
    /\ pc' = "INIT"
    /\ UNCHANGED auxVars
    /\ UNCHANGED <<prompt, session_id, events, step_count, current_agent,
                   final_text, trace, elapsed, state, result, exc, mail,
                   response, tool_result>>

\* create_session returns a session
CreateSessionOk ==
    /\ pc = "INIT"
    /\ \E sid \in SessionIds : session_id' = sid
    /\ pc' = "SESSION_OPEN"
    /\ UNCHANGED auxVars
    /\ UNCHANGED <<event, prompt, events, step_count, current_agent, final_text,
                   trace, elapsed, state, result, exc, mail, response, tool_result>>

\* An exception leaves _run_commander: nothing in it catches one raised by
\* the session service or by the stream.
Propagate(msg) ==
    /\ exc' = <<msg>>
    /\ pc' = "ABORTED"

\* create_session raises
CreateSessionRaises ==
    /\ pc = "INIT"
    /\ Propagate("create_session failed")
    /\ UNCHANGED auxVars
    /\ UNCHANGED <<event, prompt, session_id, events, step_count, current_agent,
                   final_text, trace, elapsed, state, result, mail, response,
                   tool_result>>

\* prompt = ...; content = ...; _trace("START", ...); the loop's variables
BuildPrompt(ev) ==
    [head |-> "A CloudWatch alarm has fired. Here is the raw event:",
     event |-> ev,
     directive |-> "Execute the full incident investigation: DETECT -> PLAN -> INVESTIGATE -> DECIDE -> REPORT."]

SubmitPrompt ==
    /\ pc = "SESSION_OPEN"
    /\ prompt' = <<BuildPrompt(event)>>
    /\ trace' = Append(trace, Line("START",
                    "Session " \o session_id \o " | Invoking Commander agent"))
    /\ final_text' = ""
    /\ current_agent' = None
    /\ step_count' = 0
    /\ pc' = "STREAMING"
    /\ UNCHANGED auxVars
    /\ UNCHANGED <<event, session_id, events, elapsed, state, result, exc, mail,
                   response, tool_result>>

\* One iteration of `async for ev in runner.run_async(...)`
RunAsyncEvent(E) ==
    /\ pc = "STREAMING"
    /\ Len(events) < MaxEvents
    /\ \E ev \in E :
        /\ events' = Append(events, ev)
        /\ step_count' = NextStepCount(step_count)
        /\ trace' = trace \o EventLines(current_agent, ev)
        /\ current_agent' = NextCurrentAgent(current_agent, ev.author)
        /\ final_text' = NextFinalText(final_text, ev)
    /\ UNCHANGED auxVars
    /\ UNCHANGED <<pc, event, prompt, session_id, elapsed, state, result, exc,
                   mail, response, tool_result>>

\* One iteration of the loop over the scenario stream, event by event.
RunScenarioEvent ==
    /\ pc = "STREAMING"
    /\ Len(events) < Len(ScenarioStream)
    /\ events = SubSeq(ScenarioStream, 1, Len(events))
    /\ LET ev == ScenarioStream[Len(events) + 1]
       IN  /\ events' = Append(events, ev)
           /\ step_count' = NextStepCount(step_count)
           /\ trace' = trace \o EventLines(current_agent, ev)
           /\ current_agent' = NextCurrentAgent(current_agent, ev.author)
           /\ final_text' = NextFinalText(final_text, ev)
    /\ UNCHANGED auxVars
    /\ UNCHANGED <<pc, event, prompt, session_id, elapsed, state, result, exc,
                   mail, response, tool_result>>

\* The stream raises and the loop swallows it, as if the stream had ended.
RunAsyncRaises_swallowed ==
    /\ pc = "STREAMING"
    /\ exc' = <<"run_async failed">>
    /\ elapsed' = 0
    /\ pc' = "DRAINED"
    /\ UNCHANGED auxVars
    /\ UNCHANGED <<event, prompt, session_id, events, step_count, current_agent,
                   final_text, trace, state, result, mail, response, tool_result>>

\* The stream raises instead of yielding its next event.
RunAsyncRaises ==
    /\ pc = "STREAMING"
    /\ Propagate("run_async failed")
    /\ UNCHANGED auxVars
    /\ UNCHANGED <<event, prompt, session_id, events, step_count, current_agent,
                   final_text, trace, elapsed, state, result, mail, response,
                   tool_result>>

\* The stream is exhausted: elapsed and the DONE line.
StreamExhausted ==
    /\ pc = "STREAMING"
    /\ \E ms \in ElapsedMs :
        /\ elapsed' = RoundTenths(ms)
        /\ trace' = Append(trace, Line("DONE",
                        "Completed in " \o TenthsStr(RoundTenths(ms)) \o "s | "
                        \o IntStr(step_count) \o " events | session=" \o session_id))
    /\ pc' = "DRAINED"
    /\ UNCHANGED auxVars
    /\ UNCHANGED <<event, prompt, session_id, events, step_count, current_agent,
                   final_text, state, result, exc, mail, response, tool_result>>

\* get_session called from inside the loop, while the stream is still running
GetSessionOk_early ==
    /\ pc = "STREAMING"
    /\ trace' = trace \o StateLines(state)
    /\ result' = <<RunResult(final_text, session_id, elapsed, step_count,
                             Findings(state))>>
    /\ pc' = "STATE_READ"
    /\ UNCHANGED auxVars
    /\ UNCHANGED <<event, prompt, session_id, events, step_count, current_agent,
                   final_text, elapsed, state, exc, mail, response, tool_result>>

\* get_session returns; the findings are collected and the result assembled.
GetSessionOk ==
    /\ pc = "DRAINED"
    /\ trace' = trace \o StateLines(state)
    /\ result' = <<RunResult(final_text, session_id, elapsed, step_count,
                             Findings(state))>>
    /\ pc' = "STATE_READ"
    /\ UNCHANGED auxVars
    /\ UNCHANGED <<event, prompt, session_id, events, step_count, current_agent,
                   final_text, elapsed, state, exc, mail, response, tool_result>>

\* get_session raises, and the failure is reported by email before it leaves
GetSessionRaises_notifies ==
    /\ pc = "DRAINED"
    /\ mail' = "sent"
    /\ trace' = Append(trace, Line("EMAIL", "Findings email sent successfully"))
    /\ Propagate("get_session failed")
    /\ UNCHANGED auxVars
    /\ UNCHANGED <<event, prompt, session_id, events, step_count, current_agent,
                   final_text, elapsed, state, result, response, tool_result>>

\* get_session raises
GetSessionRaises ==
    /\ pc = "DRAINED"
    /\ Propagate("get_session failed")
    /\ UNCHANGED auxVars
    /\ UNCHANGED <<event, prompt, session_id, events, step_count, current_agent,
                   final_text, trace, elapsed, state, result, mail, response,
                   tool_result>>

\* _send_findings_email(result) returns
SendEmailOk ==
    /\ pc = "STATE_READ"
    /\ mail' = "sent"
    /\ trace' = Append(trace, Line("EMAIL", "Findings email sent successfully"))
    /\ pc' = "DISPATCHED"
    /\ UNCHANGED auxVars
    /\ UNCHANGED <<event, prompt, session_id, events, step_count, current_agent,
                   final_text, elapsed, state, result, exc, response, tool_result>>

\* _send_findings_email(result) raises, with no try/except around the call
SendEmailRaises_uncaught ==
    /\ pc = "STATE_READ"
    /\ mail' = "failed"
    /\ Propagate("smtp failed")
    /\ UNCHANGED auxVars
    /\ UNCHANGED <<event, prompt, session_id, events, step_count, current_agent,
                   final_text, trace, elapsed, state, result, response,
                   tool_result>>

\* _send_findings_email(result) raises; `except Exception as mail_err`
SendEmailRaises ==
    /\ pc = "STATE_READ"
    /\ mail' = "failed"
    /\ trace' = Append(trace, Line("EMAIL", "Failed to send email: smtp failed"))
    /\ pc' = "DISPATCHED"
    /\ UNCHANGED auxVars
    /\ UNCHANGED <<event, prompt, session_id, events, step_count, current_agent,
                   final_text, elapsed, state, result, exc, response, tool_result>>

\* {"statusCode": 200, "body": result}
OkResponse(res) == [statusCode |-> 200, body |-> res]

\* the error put beside the status instead of in a body
ErrorResponse_flat(msg) == [statusCode |-> 500, error |-> msg]

\* {"statusCode": 500, "body": {"error": str(e)}}
ErrorResponse(msg) == [statusCode |-> 500, body |-> [error |-> msg]]

\* `return result`, then lambda_handler's `return {"statusCode": 200, ...}`
Return200 ==
    /\ pc = "DISPATCHED"
    /\ response' = <<OkResponse(result[1])>>
    /\ pc' = "returned"
    /\ UNCHANGED auxVars
    /\ UNCHANGED <<event, prompt, session_id, events, step_count, current_agent,
                   final_text, trace, elapsed, state, result, exc, mail,
                   tool_result>>

\* lambda_handler's `except Exception as e`
Return500 ==
    /\ pc = "ABORTED"
    /\ response' = <<ErrorResponse(exc[1])>>
    /\ pc' = "returned"
    /\ UNCHANGED auxVars
    /\ UNCHANGED <<event, prompt, session_id, events, step_count, current_agent,
                   final_text, trace, elapsed, state, result, exc, mail,
                   tool_result>>

(***************************************************************************)
(* deploy_agent.py: the two tools of the deployment sub-agent.  A tool     *)
(* call either returns a value or raises.                                  *)
(***************************************************************************)
Returned(value) == [kind |-> "return", value |-> value]

Raised(msg) == [kind |-> "raise", error |-> msg]

\* What the runtime gets back from calling the tool named `tool`.
ToolOutcome(tool, out) == [tool |-> tool, out |-> out]

\* Outcomes of get_github_deployments: a list of deployments, or an exception.
FetchOutcomes ==
    { [ok |-> TRUE, deployments |-> <<"c1", "c2", "c3">>],
      [ok |-> FALSE, error |-> "github unavailable"] }

\* Outcomes of correlate_deploy_to_incident: its result, or an exception.
CorrelateOutcomes ==
    { [ok |-> TRUE, highest_risk_deploy |-> "c2"],
      [ok |-> FALSE, error |-> "invalid reference time"] }

\* time_window as the calling model passes it: complete, or lacking a key.
TimeWindows ==
    { [start |-> "10:00", end |-> "10:30", incident_id |-> "INC-1"],
      [start |-> "10:00", end |-> "10:30"],
      [start |-> "10:00", incident_id |-> "INC-1"] }

AnomalyStarts == {None, "10:05"}

\* time_window.get("incident_id", "INC-UNKNOWN")
IncidentIdOf(time_window) ==
    IF "incident_id" \in DOMAIN time_window THEN time_window.incident_id
    ELSE "INC-UNKNOWN"

\* analyze_deployments(service, time_window, anomaly_start), given what the
\* two collaborators do when called
analyze_deployments(service, time_window, anomaly_start, fetch, corr) ==
    IF ~fetch.ok THEN Returned([error |-> fetch.error])
    ELSE IF anomaly_start = None /\ "end" \notin DOMAIN time_window
    THEN Raised("KeyError: 'end'")
    ELSE IF ~corr.ok THEN Raised(corr.error)
    ELSE Returned([deployments_found |-> Len(fetch.deployments),
                   correlation_results |->
                       [highest_risk_deploy |-> corr.highest_risk_deploy,
                        ref_time |-> IF anomaly_start # None THEN anomaly_start
                                     ELSE time_window.end],
                   service |-> service,
                   incident_id |-> IncidentIdOf(time_window)])

\* build_response_envelope(agent_name, incident_id, findings, start_time, summary)
build_response_envelope(agent_name, incident_id, findings, start_time, summary) ==
    [agent_name |-> agent_name, incident_id |-> incident_id,
     findings |-> findings, summary |-> summary, start_time |-> start_time]

\* submit_deploy_response(incident_id, findings, summary), called at time now
submit_deploy_response(incident_id, findings, summary, now) ==
    build_response_envelope("deploy_agent", incident_id, findings, now, summary)

Clock == {100, 200}

SubmittedFindings == {<<>>, <<"c2 changed api/db.py">>}

Summaries == {"Identified risky deployment c2"}

\* The runtime calls the tool analyze_deployments.
AnalyzeDeploymentsCall ==
    /\ pc = "STREAMING"
    /\ \E tw \in TimeWindows, a \in AnomalyStarts,
          f \in FetchOutcomes, c \in CorrelateOutcomes :
            tool_result' = <<ToolOutcome("analyze_deployments",
                                         analyze_deployments("api", tw, a, f, c))>>
    /\ UNCHANGED auxVars
    /\ UNCHANGED <<pc, event, prompt, session_id, events, step_count,
                   current_agent, final_text, trace, elapsed, state, result,
                   exc, mail, response>>

\* The tool call, had submit_deploy_response stored its summary in the state.
SubmitDeployResponseCall_writesState ==
    /\ pc = "STREAMING"
    /\ \E fnd \in SubmittedFindings, sm \in Summaries, now \in Clock :
        /\ tool_result' = <<ToolOutcome("submit_deploy_response",
                    Returned(submit_deploy_response("INC-1", fnd, sm, now)))>>
        /\ state' = DictPut(state, DeployOutputKey, PyStr(sm))
    /\ UNCHANGED auxVars
    /\ UNCHANGED <<pc, event, prompt, session_id, events, step_count,
                   current_agent, final_text, trace, elapsed, result, exc, mail,
                   response>>

\* The runtime calls the tool submit_deploy_response: the envelope is the
\* tool's return value.
SubmitDeployResponseCall ==
    /\ pc = "STREAMING"
    /\ \E fnd \in SubmittedFindings, sm \in Summaries, now \in Clock :
            tool_result' = <<ToolOutcome("submit_deploy_response",
                    Returned(submit_deploy_response("INC-1", fnd, sm, now)))>>
    /\ UNCHANGED auxVars
    /\ UNCHANGED <<pc, event, prompt, session_id, events, step_count,
                   current_agent, final_text, trace, elapsed, state, result,
                   exc, mail, response>>

\* What the runtime stores under deploy_agent's output_key.
DeployOutputs ==
    {PyStr(""), PyStr("Identified risky deployment c2"), PyStr(LongText), PyNone}

\* output_key="deploy_findings": the runtime stores the agent's output.
OutputKeyWrite ==
    /\ pc = "STREAMING"
    /\ \E v \in DeployOutputs : state' = DictPut(state, DeployOutputKey, v)
    /\ UNCHANGED auxVars
    /\ UNCHANGED <<pc, event, prompt, session_id, events, step_count,
                   current_agent, final_text, trace, elapsed, result, exc, mail,
                   response, tool_result>>

OtherAgentKeys == {"logs_findings", "metrics_findings"}

OtherAgentOutputs == {PyStr(""), PyStr("error spike at 10:04")}

\* The logs and metrics sub-agents store their output under their own keys.
OtherAgentWrite ==
    /\ pc = "STREAMING"
    /\ \E k \in OtherAgentKeys, v \in OtherAgentOutputs :
            state' = DictPut(state, k, v)
    /\ UNCHANGED auxVars
    /\ UNCHANGED <<pc, event, prompt, session_id, events, step_count,
                   current_agent, final_text, trace, elapsed, result, exc, mail,
                   response, tool_result>>

(***************************************************************************)
(* _truncate called on its own, on texts over a two-letter alphabet.       *)
(***************************************************************************)
MaxTextLen == 5

MaxBound == 3

RECURSIVE TextsUpTo(_)
\* All texts of at most n characters.
TextsUpTo(n) ==
    IF n = 0 THEN {""}
    ELSE LET shorter == TextsUpTo(n - 1)
         IN  shorter \cup {t \o c : t \in shorter, c \in {"a", "b"}}

\* _truncate(text, max_len)
TruncateCall ==
    /\ \E text \in TextsUpTo(MaxTextLen), max_len \in 0..MaxBound :
            truncated' = <<[text |-> text, max_len |-> max_len,
                            value |-> Truncate(text, max_len)]>>
    /\ UNCHANGED <<pc, event, prompt, session_id, events, step_count,
                   current_agent, final_text, trace, elapsed, state, result,
                   exc, mail, response, tool_result, runs, store>>

(***************************************************************************)
(* Concurrent runs of _run_commander.  Every variable of a run is a local  *)
(* of its coroutine; what the runs could share is the session store, keyed *)
(* by session id.  `written` records what a run's own sub-agents stored.   *)
(***************************************************************************)
MaxRunEvents == 2

RunIds == {"run-a", "run-b"}

NewRun ==
    [pc |-> "INIT", session_id |-> "", events |-> <<>>, step_count |-> 0,
     current_agent |-> None, final_text |-> "", elapsed |-> 0,
     written |-> EmptyDict, result |-> <<>>]

\* The loop body, with step_count a module-level counter all runs increment
RunAfterEvent_sharedCounter(rs, r, ev) ==
    [q \in DOMAIN rs |->
        IF q = r
        THEN [rs[q] EXCEPT !.events = Append(@, ev),
                           !.step_count = NextStepCount(@),
                           !.current_agent = NextCurrentAgent(@, ev.author),
                           !.final_text = NextFinalText(@, ev)]
        ELSE [rs[q] EXCEPT !.step_count = NextStepCount(@)]]

\* The loop body of run r: it assigns that run's locals only.
RunAfterEvent(rs, r, ev) ==
    [rs EXCEPT ![r].events = Append(@, ev),
               ![r].step_count = NextStepCount(@),
               ![r].current_agent = NextCurrentAgent(@, ev.author),
               ![r].final_text = NextFinalText(@, ev)]

\* create_session gives run r a session of its own.
RunOpen(r) ==
    /\ runs[r].pc = "INIT"
    /\ \E sid \in SessionIds \ DOMAIN store :
        /\ runs' = [runs EXCEPT ![r].pc = "STREAMING", ![r].session_id = sid]
        /\ store' = DictPut(store, sid, EmptyDict)
    /\ UNCHANGED <<pc, event, prompt, session_id, events, step_count,
                   current_agent, final_text, trace, elapsed, state, result,
                   exc, mail, response, tool_result, truncated>>

\* One iteration of run r's event loop.
RunEvent(r) ==
    /\ runs[r].pc = "STREAMING"
    /\ Len(runs[r].events) < MaxRunEvents
    /\ \E ev \in CoreEvents : runs' = RunAfterEvent(runs, r, ev)
    /\ UNCHANGED <<pc, event, prompt, session_id, events, step_count,
                   current_agent, final_text, trace, elapsed, state, result,
                   exc, mail, response, tool_result, truncated, store>>

RunOutputs == {PyStr(""), PyStr("Identified risky deployment c2")}

\* The runtime stores the output of run r's deploy agent in r's session.
RunAgentWrite(r) ==
    /\ runs[r].pc = "STREAMING"
    /\ \E v \in RunOutputs :
        /\ store' = [store EXCEPT ![runs[r].session_id] =
                                        DictPut(@, DeployOutputKey, v)]
        /\ runs' = [runs EXCEPT ![r].written = DictPut(@, DeployOutputKey, v)]
    /\ UNCHANGED <<pc, event, prompt, session_id, events, step_count,
                   current_agent, final_text, trace, elapsed, state, result,
                   exc, mail, response, tool_result, truncated>>

\* Run r's stream ends; r reads its session back and assembles its result.
RunFinish(r) ==
    /\ runs[r].pc = "STREAMING"
    /\ \E ms \in ElapsedMs :
            runs' = [runs EXCEPT
                ![r].pc = "DISPATCHED",
                ![r].elapsed = RoundTenths(ms),
                ![r].result = <<RunResult(runs[r].final_text, runs[r].session_id,
                                          RoundTenths(ms), runs[r].step_count,
                                          Findings(store[runs[r].session_id]))>>]
    /\ UNCHANGED <<pc, event, prompt, session_id, events, step_count,
                   current_agent, final_text, trace, elapsed, state, result,
                   exc, mail, response, tool_result, truncated, store>>

(***************************************************************************)
(* Specifications.                                                         *)
(*   Spec      : a whole invocation of lambda_handler, the sub-agents       *)
(*               writing their findings while the stream runs.             *)
(*   SpecTrace : the same run over the full variety of events.             *)
(*   SpecAgent : the run with the deployment sub-agent's tools.            *)
(***************************************************************************)
Init == InitWith(Payloads)

Next ==
    \/ LambdaNormalize
    \/ CreateSessionOk
    \/ CreateSessionRaises
    \/ SubmitPrompt
    \/ RunAsyncEvent(CoreEvents)
    \/ RunAsyncRaises
    \/ StreamExhausted
    \/ OutputKeyWrite
    \/ OtherAgentWrite
    \/ GetSessionOk
    \/ GetSessionRaises
    \/ SendEmailOk
    \/ SendEmailRaises
    \/ Return200
    \/ Return500

Spec == Init /\ [][Next]_vars

InitTrace == InitWith({BareAlarm})

NextTrace ==
    \/ LambdaNormalize
    \/ CreateSessionOk
    \/ CreateSessionRaises
    \/ SubmitPrompt
    \/ RunAsyncEvent(TraceEvents)
    \/ RunScenarioEvent
    \/ RunAsyncRaises
    \/ StreamExhausted
    \/ GetSessionOk
    \/ GetSessionRaises
    \/ SendEmailOk
    \/ SendEmailRaises
    \/ Return200
    \/ Return500

SpecTrace == InitTrace /\ [][NextTrace]_vars

InitAgent == InitWith({BareAlarm})

NextAgent ==
    \/ LambdaNormalize
    \/ CreateSessionOk
    \/ CreateSessionRaises
    \/ SubmitPrompt
    \/ RunAsyncEvent(CoreEvents)
    \/ RunAsyncRaises
    \/ StreamExhausted
    \/ AnalyzeDeploymentsCall
    \/ SubmitDeployResponseCall
    \/ OutputKeyWrite
    \/ GetSessionOk
    \/ GetSessionRaises
    \/ SendEmailOk
    \/ SendEmailRaises
    \/ Return200
    \/ Return500

SpecAgent == InitAgent /\ [][NextAgent]_vars

(***************************************************************************)
(* Properties.                                                             *)
(***************************************************************************)
HasResult == result # <<>>

RECURSIVE FinalTexts(_)
\* The texts t1..tk of the final-response events of a stream, in stream order.
FinalTexts(evs) ==
    IF Len(evs) = 0 THEN <<>>
    ELSE (IF IsFinalText(evs[1]) THEN <<Combined(evs[1])>> ELSE <<>>)
         \o FinalTexts(Tail(evs))

\* C1: the 'response' of the Run Result is the texts of the stream's
\* final-response events joined with a single space, in stream order, and no
\* text of a non-final event enters it.
C1_ResponseIsSpaceJoinedFinalTexts ==
    HasResult => result[1].response = Join(" ", FinalTexts(events))

\* What the loop computes instead: the texts concatenated with no separator.
C1_ResponseIsConcatenatedFinalTexts ==
    HasResult => result[1].response = Join("", FinalTexts(events))

\* C2: after any prefix of the stream the counter equals the number of events
\* consumed, and the 'event_count' of the Run Result equals the number of
\* events the stream yielded.
C2_EventCountIsStreamLength ==
    /\ step_count = Len(events)
    /\ HasResult => result[1].event_count = Len(events)

\* An event that logged no line at all was still counted.
C2_Witness ==
    /\ HasResult
    /\ result[1].event_count = Len(events)
    /\ Len(events) >= 2
    /\ \E n \in 2..Len(events) : EventLines(events[n-1].author, events[n]) = <<>>

IsExiting(line) == line.tag = "AGENT" /\ StartsWith(line.msg, "<<< Exiting: ")

IsEntering(line) == line.tag = "AGENT" /\ StartsWith(line.msg, ">>> Entering: ")

Exits == {i \in DOMAIN trace : IsExiting(trace[i])}

Enters == {i \in DOMAIN trace : IsEntering(trace[i])}

\* The events whose author differs from the author of the event before.
AuthorChanges(evs) ==
    {n \in DOMAIN evs : n = 1 \/ evs[n].author # evs[n-1].author}

\* C3: an event is a transition exactly when its author differs from the
\* previous event's author; the first event logs an Entering line and no
\* Exiting line; for a non-empty stream there is one Exiting line less than
\* Entering lines, and a single-author stream logs no Exiting line.
C3_TransitionsFollowAuthorChanges ==
    /\ Cardinality(Enters) = Cardinality(AuthorChanges(events))
    /\ events # <<>> =>
        /\ Cardinality(Exits) = Cardinality(Enters) - 1
        /\ trace[2] = Line("AGENT", ">>> Entering: " \o events[1].author)
        /\ \A i \in Exits : i > 2
    /\ (\A n \in DOMAIN events : events[n].author = events[1].author) =>
            Exits = {}

\* Three events, the author changing twice.
C3_Witness ==
    /\ Len(events) = 3
    /\ events[1].author # events[2].author
    /\ events[2].author # events[3].author
    /\ Cardinality(Exits) = 2
    /\ Cardinality(Enters) = 3

\* C4: when _send_findings_email raises, _run_commander still returns, the
\* Run Result is the one assembled before the dispatch, field for field what
\* the run computed from its stream and session, and lambda_handler reports
\* the run with statusCode 200.
C4_DispatchFailureIsolated ==
    /\ mail # "none" =>
            result = <<RunResult(Join("", FinalTexts(events)), session_id, elapsed,
                                 Len(events), Findings(state))>>
    /\ mail = "failed" =>
        /\ pc \in {"DISPATCHED", "returned"}
        /\ exc = <<>>
        /\ pc = "returned" => response = <<OkResponse(result[1])>>

\* The dispatch failed in a run that had text and a finding to report.
C4_Witness ==
    /\ mail = "failed"
    /\ pc = "returned"
    /\ response[1].statusCode = 200
    /\ response[1].body.response # ""
    /\ DOMAIN response[1].body.sub_agent_findings # {}

\* C5: a well-known finding key absent from the session state is absent from
\* 'sub_agent_findings'; a state holding only deploy_findings gives exactly
\* that one key.
C5_AbsentKeysOmitted ==
    HasResult =>
        /\ \A k \in Range(FindingKeys) :
                k \notin DOMAIN state => k \notin DOMAIN result[1].sub_agent_findings
        /\ (DOMAIN state = {"deploy_findings"} /\ Truthy(state["deploy_findings"])) =>
                DOMAIN result[1].sub_agent_findings = {"deploy_findings"}

\* The state holds deploy_findings only, and so does the result.
C5_Witness ==
    /\ HasResult
    /\ DOMAIN state = {"deploy_findings"}
    /\ DOMAIN result[1].sub_agent_findings = {"deploy_findings"}

\* C6: a well-known finding key present in the session state, whatever its
\* value, is mapped by 'sub_agent_findings' to the string rendering of the
\* value truncated to 500 characters.
C6_PresentKeysIncluded ==
    HasResult =>
        \A k \in Range(FindingKeys) \cap DOMAIN state :
            /\ k \in DOMAIN result[1].sub_agent_findings
            /\ result[1].sub_agent_findings[k] = Truncate(Str(state[k]), FindingsMaxLen)

\* What the state read does instead: truthy values only.
C6_TruthyKeysIncluded ==
    HasResult =>
        \A k \in Range(FindingKeys) :
            IF k \in DOMAIN state /\ Truthy(state[k])
            THEN /\ k \in DOMAIN result[1].sub_agent_findings
                 /\ result[1].sub_agent_findings[k] =
                        Truncate(Str(state[k]), FindingsMaxLen)
            ELSE k \notin DOMAIN result[1].sub_agent_findings

RunFatal == {"create_session failed", "run_async failed"}

\* C7: a failure of session creation or of the event stream is not caught in
\* _run_commander: the run is aborted, no Run Result is assembled, nothing is
\* dispatched, and lambda_handler returns statusCode 500 with the failure's
\* message, never statusCode 200.
C7_RunFatalErrorsSurfaceAs500 ==
    (exc # <<>> /\ exc[1] \in RunFatal) =>
        /\ pc \in {"ABORTED", "returned"}
        /\ result = <<>>
        /\ mail = "none"
        /\ pc = "returned" => response = <<ErrorResponse(exc[1])>>
        /\ response # <<>> => response[1].statusCode # 200

\* The stream failed after it had yielded events, and the caller got a 500.
C7_Witness ==
    /\ exc = <<"run_async failed">>
    /\ Len(events) >= 1
    /\ pc = "returned"
    /\ response[1].statusCode = 500
    /\ response[1].body.error = "run_async failed"

\* A mapping lambda_handler may return: a status with a complete Run Result,
\* or a status with an error message.
WellFormedResponse(r) ==
    /\ DOMAIN r = {"statusCode", "body"}
    /\ \/ /\ r.statusCode = 200
          /\ DOMAIN r.body = ResultFields
       \/ /\ r.statusCode = 500
          /\ DOMAIN r.body = {"error"}
          /\ r.body.error \in STRING

\* C8: whatever the payload and the outcome of the run, lambda_handler
\* returns: the run cannot end anywhere but in a return, and what is returned
\* is statusCode 200 with a complete Run Result or statusCode 500 with an
\* error message.
C8_AlwaysAWellFormedResponse ==
    /\ pc = "returned" <=> response # <<>>
    /\ response # <<>> =>
        /\ Len(response) = 1
        /\ WellFormedResponse(response[1])
        /\ response[1].statusCode = 200 => (HasResult /\ response[1].body = result[1])
    /\ pc # "returned" => ENABLED Next

\* The state read failed and the caller got a well-formed 500.
C8_Witness ==
    /\ pc = "returned"
    /\ exc = <<"get_session failed">>
    /\ response[1].statusCode = 500
    /\ response[1].body = [error |-> "get_session failed"]

LastToolCallWas(tool) == tool_result # <<>> /\ tool_result[1].tool = tool

SummaryFields == {"deployments_found", "correlation_results", "service", "incident_id"}

\* C9: analyze_deployments never raises: whatever its input and whichever of
\* its steps fails, it returns the findings summary or {"error": message}.
C9_AnalyzeNeverRaises ==
    LastToolCallWas("analyze_deployments") =>
        /\ tool_result[1].out.kind = "return"
        /\ DOMAIN tool_result[1].out.value \in {SummaryFields, {"error"}}

\* What the code guarantees: a failure to fetch the deployments is returned
\* as {"error": message}.
C9_FetchFailureIsReturned ==
    LastToolCallWas("analyze_deployments") =>
        (tool_result[1].out.kind = "raise" => tool_result[1].out.error # "github unavailable")

EnvelopeFields == {"agent_name", "incident_id", "findings", "summary", "start_time"}

HasBothKeys(ev) == "detail-type" \in DOMAIN ev /\ "detail" \in DOMAIN ev

HasNeitherKey(ev) == "detail-type" \notin DOMAIN ev /\ "detail" \notin DOMAIN ev

\* C11: lambda_handler wraps a payload with neither a 'detail-type' nor a
\* 'detail' key as {"detail": payload, "detail-type": "CloudWatch Alarm State
\* Change"} and passes a payload that has those keys through unchanged;
\* normalising the normalised payload changes nothing; and the prompt is
\* built from the normalised payload.
C11_NormalizeWrapsBarePayloads ==
    [][ /\ (pc = "lambda_handler" /\ pc' # pc) =>
            /\ HasNeitherKey(event) =>
                    /\ DOMAIN event' = {"detail", "detail-type"}
                    /\ event'["detail"] = event
                    /\ event'["detail-type"] = "CloudWatch Alarm State Change"
            /\ HasBothKeys(event) => event' = event
            /\ Normalize(event') = event'
        /\ pc # "lambda_handler" => event' = event
        /\ (prompt = <<>> /\ prompt' # <<>>) =>
            /\ prompt'[1].event = event
            /\ Normalize(event) = event
      ]_vars

\* The bare payload was wrapped and the prompt built from the wrapped one.
C11_Witness ==
    /\ prompt # <<>>
    /\ prompt[1].event = Wrapped(BareAlarm)
    /\ event = Wrapped(BareAlarm)

InitTruncate == InitWith({BareAlarm})

NextTruncate == TruncateCall

\* _truncate alone: every text and bound within the bounds of the model.
SpecTruncate == InitTruncate /\ [][NextTruncate]_vars

\* C12: _truncate(s, m) is s when len(s) <= m; otherwise it has m + len("...")
\* characters, its first m characters are the first m characters of s and
\* it ends with the marker "...".
C12_TruncateKeepsPrefixAddsMarker ==
    truncated # <<>> =>
        LET s == truncated[1].text
            m == truncated[1].max_len
            out == truncated[1].value
        IN  IF Len(s) <= m THEN out = s
            ELSE /\ Len(out) = m + Len("...")
                 /\ SubSeq(out, 1, m) = SubSeq(s, 1, m)
                 /\ SubSeq(out, m + 1, Len(out)) = "..."

\* A text longer than the bound was cut.
C12_Witness ==
    /\ truncated # <<>>
    /\ truncated[1].text = "abab"
    /\ truncated[1].max_len = 2
    /\ truncated[1].value = "ab..."

InitRuns ==
    /\ MainInit({BareAlarm})
    /\ truncated = <<>>
    /\ runs = [r \in RunIds |-> NewRun]
    /\ store = <<>>

NextRuns ==
    \/ \E r \in RunIds : RunOpen(r)
    \/ \E r \in RunIds : RunEvent(r)
    \/ \E r \in RunIds : RunAgentWrite(r)
    \/ \E r \in RunIds : RunFinish(r)

\* Two runs of _run_commander, their steps interleaved in every order.
SpecRuns == InitRuns /\ [][NextRuns]_vars

\* C13: whatever the interleaving of two runs with distinct sessions, each
\* run's counter, current agent and final text depend on its own stream
\* only, and its Run Result is the one the run computes alone from its own
\* stream and what its own sub-agents stored.
C13_RunsAreIndependent ==
    \A r \in DOMAIN runs :
        LET run == runs[r]
        IN  /\ run.step_count = Len(run.events)
            /\ run.current_agent =
                    IF run.events = <<>> THEN None
                    ELSE run.events[Len(run.events)].author
            /\ run.final_text = Join("", FinalTexts(run.events))
            /\ run.pc # "INIT" => store[run.session_id] = run.written
            /\ run.result # <<>> =>
                    run.result[1] =
                        RunResult(Join("", FinalTexts(run.events)), run.session_id,
                                  run.elapsed, Len(run.events), Findings(run.written))

\* Both runs finished, with different streams, findings and results.
C13_Witness ==
    /\ runs # <<>>
    /\ \A r \in RunIds : runs[r].result # <<>>
    /\ Len(runs["run-a"].events) = 2
    /\ Len(runs["run-b"].events) = 1
    /\ runs["run-a"].result[1].response # runs["run-b"].result[1].response
    /\ DOMAIN runs["run-a"].result[1].sub_agent_findings = {"deploy_findings"}
    /\ DOMAIN runs["run-b"].result[1].sub_agent_findings = {}

\* The phase steps of a run that does not raise, in order.
PhaseOrder ==
    {<<"INIT", "SESSION_OPEN">>, <<"SESSION_OPEN", "STREAMING">>,
     <<"STREAMING", "DRAINED">>, <<"DRAINED", "STATE_READ">>,
     <<"STATE_READ", "DISPATCHED">>}

\* The steps by which control enters and leaves _run_commander.
EntryAndExit ==
    {<<"lambda_handler", "INIT">>, <<"DISPATCHED", "returned">>,
     <<"INIT", "ABORTED">>, <<"STREAMING", "ABORTED">>,
     <<"DRAINED", "ABORTED">>, <<"ABORTED", "returned">>}

\* C14: the phase changes only along INIT, SESSION_OPEN, STREAMING, DRAINED,
\* STATE_READ, DISPATCHED (or the run is left by an exception); the session
\* state is written only while streaming and read once, on the step from
\* DRAINED to STATE_READ, so the findings are those of every write made
\* during the stream; the dispatch happens only on the step from STATE_READ
\* to DISPATCHED.
C14_PhasesInOrder ==
    [][ /\ pc' # pc => <<pc, pc'>> \in PhaseOrder \cup EntryAndExit
        /\ state' # state => pc = "STREAMING" /\ pc' = "STREAMING"
        /\ events' # events => pc = "STREAMING" /\ pc' = "STREAMING"
        /\ result' # result =>
                /\ pc = "DRAINED" /\ pc' = "STATE_READ"
                /\ result = <<>>
                /\ result'[1].sub_agent_findings = Findings(state')
        /\ (pc = "DRAINED" /\ pc' = "STATE_READ") => result' # result
        /\ mail' # mail =>
                /\ pc = "STATE_READ" /\ pc' = "DISPATCHED"
                /\ mail = "none"
                /\ result # <<>>
        /\ (pc = "STATE_READ" /\ pc' = "DISPATCHED") => mail' # mail
      ]_vars

\* A run reached DISPATCHED after two events and a write of each sub-agent,
\* and its result carries both writes.
C14_Witness ==
    /\ pc = "DISPATCHED"
    /\ Len(events) = 2
    /\ DOMAIN state = {"deploy_findings", "logs_findings"}
    /\ Truthy(state["deploy_findings"]) /\ Truthy(state["logs_findings"])
    /\ DOMAIN result[1].sub_agent_findings = {"deploy_findings", "logs_findings"}
    /\ mail = "sent"

\* A step of the event loop, the event it consumed and the lines it logged.
EventStep == events' # events

LastEvent == events'[Len(events')]

NewLines == SubSeq(trace', Len(trace) + 1, Len(trace'))

\* The place of a line in the order of the sections of the loop body.
Rank(line) ==
    CASE IsExiting(line) -> 1
      [] IsEntering(line) -> 2
      [] line.tag = "TOOL_CALL" -> 3
      [] line.tag = "TOOL_RESULT" -> 4
      [] line.tag = "A2A_TRANSFER" -> 5
      [] line.tag = "ESCALATE" -> 6
      [] line.tag \in {"FINAL_RESPONSE", "REASONING"} -> 7
      [] OTHER -> 0

CountTag(lines, tag) == Cardinality({i \in DOMAIN lines : lines[i].tag = tag})

\* C15: the lines of one event are logged in the order Exiting, Entering,
\* TOOL_CALL lines, TOOL_RESULT lines, A2A_TRANSFER, ESCALATE, text line (only
\* the tool lines may repeat), and they are appended after every line logged
\* before, so the lines of event n precede those of event n+1.
C15_LinesInSectionOrder ==
    [][ /\ Len(trace') >= Len(trace)
        /\ SubSeq(trace', 1, Len(trace)) = trace
        /\ EventStep =>
            /\ \A i \in DOMAIN NewLines : Rank(NewLines[i]) # 0
            /\ \A i, j \in DOMAIN NewLines : i < j =>
                /\ Rank(NewLines[i]) <= Rank(NewLines[j])
                /\ Rank(NewLines[i]) = Rank(NewLines[j]) =>
                        Rank(NewLines[i]) \in {3, 4}
      ]_vars

\* An event with every kind of content followed an event of another agent
\* and logged nine lines, all the sections at once.
C15_Witness ==
    /\ Len(events) = 2
    /\ events[1].author = "deploy_agent"
    /\ events[2].author = "Commander"
    /\ Len(events[2].calls) = 2 /\ Len(events[2].resps) = 2
    /\ events[2].transfer_to # None /\ events[2].escalate /\ events[2].final
    /\ Len(trace) >= 11
    /\ trace[Len(trace)].tag = "FINAL_RESPONSE"
    /\ trace[Len(trace) - 1].tag = "ESCALATE"
    /\ IsExiting(trace[Len(trace) - 8])

\* The event carries text: one of its parts has a non-empty text.
HasText(ev) == \E i \in DOMAIN ev.parts : ev.parts[i] # ""

\* C16 as stated: every event marked final logs exactly one FINAL_RESPONSE
\* line; a non-final event with text and no tool calls or responses logs
\* exactly one REASONING line; an event with tool calls or responses only
\* logs no text line; no event logs more than one text line.
C16_EveryFinalEventLogsFinalResponse ==
    [][ EventStep =>
            LET ev == LastEvent
                fr == CountTag(NewLines, "FINAL_RESPONSE")
                re == CountTag(NewLines, "REASONING")
            IN  /\ ev.final => fr = 1
                /\ (~ev.final /\ HasText(ev) /\ ev.calls = <<>> /\ ev.resps = <<>>)
                        => re = 1
                /\ (~ev.final /\ ~HasText(ev)) => fr + re = 0
                /\ fr + re <= 1
      ]_vars

\* C16: an event marked final that carries text logs exactly one
\* FINAL_RESPONSE line and a final event without text logs no text line; a
\* non-final event with text and no tool calls or responses logs exactly one
\* REASONING line; an event without text logs no text line; no event logs
\* more than one text line.
C16_TextLineClassification ==
    [][ EventStep =>
            LET ev == LastEvent
                fr == CountTag(NewLines, "FINAL_RESPONSE")
                re == CountTag(NewLines, "REASONING")
            IN  /\ (ev.final /\ HasText(ev)) => (fr = 1 /\ re = 0)
                /\ (~ev.final /\ HasText(ev) /\ ev.calls = <<>> /\ ev.resps = <<>>)
                        => (re = 1 /\ fr = 0)
                /\ ~HasText(ev) => fr + re = 0
                /\ fr + re <= 1
      ]_vars

\* A final event without text was followed by a final event with text, and
\* the trace holds one FINAL_RESPONSE line.
C16_Witness ==
    /\ Len(events) = 2
    /\ events[1].final /\ ~HasText(events[1])
    /\ events[2].final /\ HasText(events[2])
    /\ CountTag(trace, "FINAL_RESPONSE") = 1
    /\ CountTag(trace, "REASONING") = 0

\* C17: an event logs the line A2A_TRANSFER "author -> target" exactly when
\* its actions name a transfer target, and the ESCALATE line exactly when its
\* escalate flag is set, whatever else the event carries.
C17_SignalsReportedIndependently ==
    [][ EventStep =>
            LET ev == LastEvent
                transfers == {i \in DOMAIN NewLines : NewLines[i].tag = "A2A_TRANSFER"}
                escalates == {i \in DOMAIN NewLines : NewLines[i].tag = "ESCALATE"}
            IN  /\ Cardinality(transfers) = IF ev.transfer_to # None THEN 1 ELSE 0
                /\ \A i \in transfers :
                        NewLines[i].msg = ev.author \o " -> " \o ev.transfer_to
                /\ Cardinality(escalates) = IF ev.escalate THEN 1 ELSE 0
                /\ \A i \in escalates :
                        NewLines[i].msg = ev.author \o " escalating to parent"
      ]_vars

\* One event carried both signals, with tool calls, tool responses and text,
\* and both lines are in the trace.
C17_Witness ==
    /\ Len(events) = 1
    /\ events[1].transfer_to = "deploy_agent" /\ events[1].escalate
    /\ events[1].calls # <<>> /\ events[1].resps # <<>> /\ HasText(events[1])
    /\ CountTag(trace, "A2A_TRANSFER") = 1
    /\ CountTag(trace, "ESCALATE") = 1

RECURSIVE CallNames(_)
\* The names of the function calls of a stream, in stream order.
CallNames(evs) ==
    IF Len(evs) = 0 THEN <<>>
    ELSE [i \in DOMAIN evs[1].calls |-> evs[1].calls[i].name] \o CallNames(Tail(evs))

RECURSIVE RespNames(_)
\* The names of the function responses of a stream, in stream order.
RespNames(evs) ==
    IF Len(evs) = 0 THEN <<>>
    ELSE [i \in DOMAIN evs[1].resps |-> evs[1].resps[i].name] \o RespNames(Tail(evs))

HasTag(tag, line) == line.tag = tag

ToolCallTrace == SelectSeq(trace, LAMBDA line : HasTag("TOOL_CALL", line))

ToolResultTrace == SelectSeq(trace, LAMBDA line : HasTag("TOOL_RESULT", line))

\* C18: the trace holds one TOOL_CALL line per function call of the stream
\* and one TOOL_RESULT line per function response, in their order; the
\* stream transfer, tool call, tool result, final response "Found risky
\* deploy X" gives one A2A_TRANSFER, one TOOL_CALL and one TOOL_RESULT line,
\* the final buffer "Found risky deploy X" and event_count 4.
C18_NoToolLineDropped ==
    /\ Len(ToolCallTrace) = Len(CallNames(events))
    /\ \A i \in DOMAIN ToolCallTrace :
            StartsWith(ToolCallTrace[i].msg, CallNames(events)[i] \o "(")
    /\ Len(ToolResultTrace) = Len(RespNames(events))
    /\ \A i \in DOMAIN ToolResultTrace :
            StartsWith(ToolResultTrace[i].msg, RespNames(events)[i] \o " -> ")
    /\ events = ScenarioStream =>
        /\ CountTag(trace, "A2A_TRANSFER") = 1
        /\ Len(ToolCallTrace) = 1
        /\ Len(ToolResultTrace) = 1
        /\ final_text = "Found risky deploy X"
        /\ step_count = 4
        /\ HasResult =>
            /\ result[1].response = "Found risky deploy X"
            /\ result[1].event_count = 4

\* The scenario stream was processed to its end and its result assembled.
C18_Witness ==
    /\ events = ScenarioStream
    /\ HasResult
    /\ result[1].event_count = 4
    /\ ToolCallTrace[1].tag = "TOOL_CALL"
    /\ ToolResultTrace[1].tag = "TOOL_RESULT"

\* The run drained its stream and completed the state read and the dispatch.
Dispatched == pc = "DISPATCHED" \/ (pc = "returned" /\ exc = <<>>)

\* C19: a run that drains its stream and completes the state read calls
\* _send_findings_email exactly once, after the Run Result is assembled (one
\* EMAIL line, logged after the STATE lines); a run aborted by a failure of
\* session creation, of the stream or of the state read never calls it.
C19_DispatchedOnceAfterStateRead ==
    /\ Dispatched =>
        /\ mail \in {"sent", "failed"}
        /\ CountTag(trace, "EMAIL") = 1
        /\ HasResult
        /\ trace[Len(trace)].tag = "EMAIL"
        /\ trace[Len(trace) - 1].tag = "STATE"
        /\ CountTag(trace, "DONE") = 1
    /\ ~Dispatched =>
        /\ mail = "none"
        /\ CountTag(trace, "EMAIL") = 0
    /\ exc # <<>> =>
        /\ exc[1] \in {"create_session failed", "run_async failed", "get_session failed"}
        /\ ~Dispatched

\* A run whose state read failed after the stream was drained returned
\* without a dispatch.
C19_Witness ==
    /\ pc = "returned"
    /\ exc = <<"get_session failed">>
    /\ Len(events) = 2
    /\ CountTag(trace, "DONE") = 1
    /\ CountTag(trace, "EMAIL") = 0
    /\ mail = "none"

\* The agent a transition line names.
ExitingAgent(line) == SubSeq(line.msg, Len("<<< Exiting: ") + 1, Len(line.msg))

EnteringAgent(line) == SubSeq(line.msg, Len(">>> Entering: ") + 1, Len(line.msg))

\* C20: the current agent is the author of the last event processed, unset
\* only before the first event; every Exiting line names the agent of the
\* most recent Entering line and is immediately followed by an Entering line
\* that names a different agent; two consecutive Entering lines never name
\* the same agent.
C20_CurrentAgentIsLastAuthor ==
    /\ current_agent = IF events = <<>> THEN None ELSE events[Len(events)].author
    /\ \A i \in Exits :
        /\ i + 1 \in Enters
        /\ EnteringAgent(trace[i + 1]) # ExitingAgent(trace[i])
        /\ \E j \in Enters :
            /\ j < i
            /\ \A k \in Enters : k < i => k <= j
            /\ EnteringAgent(trace[j]) = ExitingAgent(trace[i])
    /\ \A j, k \in Enters :
            (j < k /\ \A m \in Enters : ~(j < m /\ m < k)) =>
                EnteringAgent(trace[j]) # EnteringAgent(trace[k])

\* Three agents in turn: Commander, deploy_agent, logs_agent.
C20_Witness ==
    /\ Len(events) = 3
    /\ events[1].author = "Commander"
    /\ events[2].author = "deploy_agent"
    /\ events[3].author = "logs_agent"
    /\ current_agent = "logs_agent"
    /\ \E i \in Exits :
        /\ ExitingAgent(trace[i]) = "deploy_agent"
        /\ EnteringAgent(trace[i + 1]) = "logs_agent"

====
